---------------------------- MODULE Spec2Model ----------------------------
(***************************************************************************)
(* The registration form of src/App.tsx: the values held by the form       *)
(* library, the schema createUserFormSchema that parses them on submit,    *)
(* the handler addNewTech, and createUser with its awaited storage upload. *)
(*                                                                         *)
(* Text that the schema inspects character by character (name, email, the  *)
(* text of a number input) is a sequence of one-character strings; text    *)
(* that is only measured or copied (password, title, file name, messages,  *)
(* output) is a string.                                                    *)
(***************************************************************************)
EXTENDS Integers, Sequences, FiniteSets, TLC

VARIABLES avatar, name, email, password, techs, errors, submitResult,
          output, uploads, lastResolved

vars == <<avatar, name, email, password, techs, errors, submitResult,
          output, uploads, lastResolved>>

(***************************************************************************)
(* Bounds of the model.                                                    *)
(***************************************************************************)
\* longest name typed, in characters
MaxNameLen == 3
\* most rows of the techs list
MaxTechs == 3
\* most createUser invocations in one behaviour
MaxUploads == 2

(***************************************************************************)
(* JavaScript string primitives used by the schema.                        *)
(***************************************************************************)
LowerLetters ==
    <<"a","b","c","d","e","f","g","h","i","j","k","l","m",
      "n","o","p","q","r","s","t","u","v","w","x","y","z">>

UpperLetters ==
    <<"A","B","C","D","E","F","G","H","I","J","K","L","M",
      "N","O","P","Q","R","S","T","U","V","W","X","Y","Z">>

Digits == <<"0","1","2","3","4","5","6","7","8","9">>

IndexIn(seq, c) ==
    IF \E i \in 1..Len(seq) : seq[i] = c
    THEN CHOOSE i \in 1..Len(seq) : seq[i] = c
    ELSE 0

IsLower(c) == IndexIn(LowerLetters, c) > 0
IsUpper(c) == IndexIn(UpperLetters, c) > 0
IsLetter(c) == IsLower(c) \/ IsUpper(c)
IsDigit(c) == IndexIn(Digits, c) > 0

\* String.prototype.toLocaleUpperCase on one character
toLocaleUpperCase(c) == IF IsLower(c) THEN UpperLetters[IndexIn(LowerLetters, c)] ELSE c

\* String.prototype.toLowerCase on one character
LowerChar(c) == IF IsUpper(c) THEN LowerLetters[IndexIn(UpperLetters, c)] ELSE c

\* String.prototype.toLowerCase
toLowerCase(s) == [i \in 1..Len(s) |-> LowerChar(s[i])]

\* the characters String.prototype.trim removes
IsWhiteSpace(c) == c \in {" ", "\t", "\n", "\r"}

RECURSIVE TrimStart(_)
TrimStart(s) ==
    IF s # <<>> /\ IsWhiteSpace(s[1]) THEN TrimStart(Tail(s)) ELSE s

RECURSIVE TrimEnd(_)
TrimEnd(s) ==
    IF s # <<>> /\ IsWhiteSpace(s[Len(s)])
    THEN TrimEnd(SubSeq(s, 1, Len(s) - 1))
    ELSE s

\* String.prototype.trim
trim(s) == TrimEnd(TrimStart(s))

\* the pieces of s between occurrences of the one-character separator sep;
\* two separators in a row, and the empty string, give an empty piece
RECURSIVE SplitOn(_, _)
SplitOn(s, sep) ==
    IF \E i \in 1..Len(s) : s[i] = sep
    THEN LET i == CHOOSE k \in 1..Len(s) :
                      s[k] = sep /\ \A j \in 1..(k - 1) : s[j] # sep
         IN  <<SubSeq(s, 1, i - 1)>> \o SplitOn(SubSeq(s, i + 1, Len(s)), sep)
    ELSE <<s>>

\* String.prototype.split(" ")
split(s) == SplitOn(s, " ")

\* Array.prototype.join(" ")
RECURSIVE join(_)
join(words) ==
    IF words = <<>> THEN <<>>
    ELSE IF Len(words) = 1 THEN words[1]
    ELSE words[1] \o <<" ">> \o join(Tail(words))

\* String.prototype.endsWith
endsWith(s, suffix) ==
    /\ Len(s) >= Len(suffix)
    /\ SubSeq(s, Len(s) - Len(suffix) + 1, Len(s)) = suffix

\* Number(text) for the text of a number input: "" is 0, digits are decimal
RECURSIVE DecimalValue(_)
DecimalValue(s) ==
    IF s = <<>> THEN 0
    ELSE 10 * DecimalValue(SubSeq(s, 1, Len(s) - 1)) + (IndexIn(Digits, s[Len(s)]) - 1)

(***************************************************************************)
(* Values.  A File is [name, size]; a FileList is a sequence of Files.     *)
(* The value of the avatar field is a FileList, or undefined while no      *)
(* input is registered under that name.  The knowledge of a row is the     *)
(* number put there by append, or the text of the number input.            *)
(***************************************************************************)
File(n, sz) == [name |-> n, size |-> sz]

Undefined == [kind |-> "undefined", files |-> <<>>]
FileList(fs) == [kind |-> "FileList", files |-> fs]

NumberValue(n) == [type |-> "number", num |-> n, text |-> <<>>]
TextValue(t) == [type |-> "string", num |-> 0, text |-> t]

Tech(t, k) == [title |-> t, knowledge |-> k]

\* what a field parser returns: it threw, or a value with the issues it raised
Threw == "TypeError"
Parsed(v, iss) == [threw |-> FALSE, value |-> v, issues |-> iss]
Thrown(v) == [threw |-> TRUE, value |-> v, issues |-> <<>>]

NoFile == File("", 0)

(***************************************************************************)
(* createUserFormSchema, field by field.  Issues are listed in the order   *)
(* the schema library raises them.                                         *)
(***************************************************************************)
MaxAvatarSize == 5 * 1024 * 1024

AvatarTooBig == "O arquivo precisa ter no máximo 5Mb"
NotAFileList == "Input not instance of FileList"

\* the refinement of the avatar: file.size <= 5 * 1024 * 1024
AvatarSizeOk(file) == file.size <= MaxAvatarSize

\* avatar: instanceof FileList, then item(0), then the size refinement.
\* item(0) of an empty list is null, and reading null.size throws.
ParseAvatar(a) ==
    IF a.kind # "FileList" THEN Parsed(NoFile, <<NotAFileList>>)
    ELSE IF a.files = <<>> THEN Thrown(NoFile)
    ELSE LET file == a.files[1]
         IN  Parsed(file, IF AvatarSizeOk(file) THEN <<>> ELSE <<AvatarTooBig>>)

NameRequired == "O nome é obrigatório"

\* the callback given to map: word[0].toLocaleUpperCase().concat(word.substring(1))
Capitalize(word) == <<toLocaleUpperCase(word[1])>> \o SubSeq(word, 2, Len(word))

\* name: nonempty, then the transform, which runs only on a name that passed
\* the check.  word[0] of an empty word is undefined, and calling
\* toLocaleUpperCase on it throws.
ParseName(n) ==
    LET words == split(trim(n))
    IN  IF n = <<>> THEN Parsed(n, <<NameRequired>>)
        ELSE IF \E i \in 1..Len(words) : words[i] = <<>> THEN Thrown(<<>>)
        ELSE Parsed(join([i \in 1..Len(words) |-> Capitalize(words[i])]), <<>>)

EmailRequired == "O e-mail é obrigatório"
EmailFormat == "Formato de e-mail inválido"
EmailNotBoo == "O e-mail precisa ser da boo"

BooDomain == <<"@","b","o","o",".","c","o","m",".","b","r">>

IsAlnum(c) == IsLetter(c) \/ IsDigit(c)

\* the address pattern of .email(): one "@"; a local part of letters, digits
\* and _ ' + - . that does not end in . or '; no leading dot and no two dots
\* in a row; domain labels of letters, digits and -, each starting with a
\* letter or digit; a last label of two or more letters
IsEmail(s) ==
    LET parts == SplitOn(s, "@")
        local == parts[1]
        labels == SplitOn(parts[2], ".")
        n == Len(labels)
    IN  /\ Len(parts) = 2
        /\ local # <<>>
        /\ \A i \in 1..Len(local) : IsAlnum(local[i]) \/ local[i] \in {"_", "'", "+", "-", "."}
        /\ local[Len(local)] \notin {".", "'"}
        /\ s[1] # "."
        /\ \A i \in 1..(Len(s) - 1) : ~(s[i] = "." /\ s[i + 1] = ".")
        /\ n >= 2
        /\ \A k \in 1..(n - 1) :
              /\ labels[k] # <<>>
              /\ IsAlnum(labels[k][1])
              /\ \A i \in 1..Len(labels[k]) : IsAlnum(labels[k][i]) \/ labels[k][i] = "-"
        /\ Len(labels[n]) >= 2
        /\ \A i \in 1..Len(labels[n]) : IsLetter(labels[n][i])

\* the refinement of the email: email.endsWith("@boo.com.br")
EmailIsBoo(e) == endsWith(e, BooDomain)

\* email with the refinement applied to the text as typed
ParseEmail_CheckThenLower(e) ==
    Parsed(toLowerCase(e),
           (IF e = <<>> THEN <<EmailRequired>> ELSE <<>>)
           \o (IF IsEmail(e) THEN <<>> ELSE <<EmailFormat>>)
           \o (IF EmailIsBoo(e) THEN <<>> ELSE <<EmailNotBoo>>))

\* email: nonempty, email format, toLowerCase, then the refinement on the
\* lowered text; failed string checks do not stop the refinement
ParseEmail(e) ==
    LET lowered == toLowerCase(e)
    IN  Parsed(lowered,
               (IF e = <<>> THEN <<EmailRequired>> ELSE <<>>)
               \o (IF IsEmail(e) THEN <<>> ELSE <<EmailFormat>>)
               \o (IF EmailIsBoo(lowered) THEN <<>> ELSE <<EmailNotBoo>>))

MinPassword == 6
PasswordTooShort == "A senha precisa de no mínimo 6 caracteres"

\* password: min(6)
ParsePassword(p) ==
    Parsed(p, IF Len(p) >= MinPassword THEN <<>> ELSE <<PasswordTooShort>>)

TitleRequired == "O título é obrigatório"
KnowledgeTooSmall == "Number must be greater than or equal to 1"
KnowledgeTooBig == "Number must be less than or equal to 100"
TooFewTechs == "Insira no mínimo duas tecnologias"
StillLearning == "Você está aprendendo!"

MinKnowledge == 1
MaxKnowledge == 100
MinTechs == 2
LearnedAbove == 50

\* z.coerce.number(): Number(input)
Coerce(k) == IF k.type = "number" THEN k.num ELSE DecimalValue(k.text)

\* one row: title nonempty, knowledge coerced, min(1), max(100)
ParseTech(row) ==
    LET k == Coerce(row.knowledge)
    IN  Parsed(Tech(row.title, k),
               (IF row.title = "" THEN <<TitleRequired>> ELSE <<>>)
               \o (IF k < MinKnowledge THEN <<KnowledgeTooSmall>> ELSE <<>>)
               \o (IF k > MaxKnowledge THEN <<KnowledgeTooBig>> ELSE <<>>))

RECURSIVE Concat(_)
Concat(seqs) == IF seqs = <<>> THEN <<>> ELSE seqs[1] \o Concat(Tail(seqs))

\* the refinement of the list with >= in place of >
SomeLearned_AtLeast(rows) == \E i \in 1..Len(rows) : rows[i].knowledge >= LearnedAbove

\* the refinement of the list: techs.some((tech) => tech.knowledge > 50)
SomeLearned(rows) == \E i \in 1..Len(rows) : rows[i].knowledge > LearnedAbove

\* techs: the length check, then every row, then the refinement on the
\* parsed rows; failed checks do not stop the refinement
ParseTechs(t) ==
    LET rows == [i \in 1..Len(t) |-> ParseTech(t[i]).value]
    IN  Parsed(rows,
               (IF Len(t) < MinTechs THEN <<TooFewTechs>> ELSE <<>>)
               \o Concat([i \in 1..Len(t) |-> ParseTech(t[i]).issues])
               \o (IF SomeLearned(rows) THEN <<>> ELSE <<StillLearning>>))

Fields == {"avatar", "name", "email", "password", "techs"}

NoErrors == [f \in Fields |-> ""]

\* the first message raised on a field, as the resolver keeps it
FirstIssue(p) == IF p.issues = <<>> THEN "" ELSE p.issues[1]

\* createUserFormSchema through zodResolver: every field is parsed; a throw
\* in any field leaves the resolver by exception; otherwise the values are
\* accepted when no field raised an issue, and the first issue of each field
\* becomes its error
Resolve(a, n, e, p, t) ==
    LET pa == ParseAvatar(a)
        pn == ParseName(n)
        pe == ParseEmail(e)
        pp == ParsePassword(p)
        pt == ParseTechs(t)
        errs == [f \in Fields |->
                   CASE f = "avatar" -> FirstIssue(pa)
                     [] f = "name" -> FirstIssue(pn)
                     [] f = "email" -> FirstIssue(pe)
                     [] f = "password" -> FirstIssue(pp)
                     [] f = "techs" -> FirstIssue(pt)]
        data == [avatar |-> pa.value, name |-> pn.value, email |-> pe.value,
                 password |-> pp.value, techs |-> pt.value]
    IN  [result |-> IF pa.threw \/ pn.threw THEN Threw
                    ELSE IF errs = NoErrors THEN "accepted"
                    ELSE "rejected",
         data |-> data,
         errors |-> errs]

(***************************************************************************)
(* JSON.stringify(data, null, 2).  A File has no enumerable property of    *)
(* its own, so the avatar is written as {}.                                *)
(***************************************************************************)
EscapeChar(c) ==
    CASE c = "\"" -> "\\\""
      [] c = "\\" -> "\\\\"
      [] c = "\n" -> "\\n"
      [] c = "\t" -> "\\t"
      [] c = "\r" -> "\\r"
      [] OTHER -> c

RECURSIVE EscapedText(_)
EscapedText(s) == IF s = <<>> THEN "" ELSE EscapeChar(s[1]) \o EscapedText(Tail(s))

Quoted(str) == "\"" \o str \o "\""

StringifyTech(row) ==
    "    {\n"
    \o "      \"title\": " \o Quoted(row.title) \o ",\n"
    \o "      \"knowledge\": " \o ToString(row.knowledge) \o "\n"
    \o "    }"

RECURSIVE StringifyRows(_)
StringifyRows(rows) ==
    IF Len(rows) = 1 THEN StringifyTech(rows[1])
    ELSE StringifyTech(rows[1]) \o ",\n" \o StringifyRows(Tail(rows))

StringifyTechs(rows) ==
    IF rows = <<>> THEN "[]" ELSE "[\n" \o StringifyRows(rows) \o "\n  ]"

Stringify(data) ==
    "{\n"
    \o "  \"avatar\": {},\n"
    \o "  \"name\": " \o Quoted(EscapedText(data.name)) \o ",\n"
    \o "  \"email\": " \o Quoted(EscapedText(data.email)) \o ",\n"
    \o "  \"password\": " \o Quoted(data.password) \o ",\n"
    \o "  \"techs\": " \o StringifyTechs(data.techs) \o "\n"
    \o "}"

(***************************************************************************)
(* The component.  uploads lists the invocations of createUser in the      *)
(* order they were started, each with the upload it awaits; lastResolved   *)
(* is the index of the invocation whose upload resolved most recently, and *)
(* an invocation is marked overlapped when it was started while an earlier *)
(* one was still awaiting its upload.  submitResult is how the latest      *)
(* handleSubmit call left validation.                                      *)
(***************************************************************************)
Bucket == "forms-react"

\* the row given to append by addNewTech
NewTech == Tech("", NumberValue(0))

\* createUser up to its await: the upload of data.avatar under its name
Invocation(data, overlap) ==
    [bucket |-> Bucket, path |-> data.avatar.name, body |-> data.avatar,
     data |-> data, status |-> "pending", result |-> "none",
     overlapped |-> overlap]

Pending == {i \in 1..Len(uploads) : uploads[i].status = "pending"}

\* createUser with the await left out: setOutput runs as the upload starts
createUser_NoAwait(data) ==
    /\ uploads' = Append(uploads, Invocation(data, Pending # {}))
    /\ output' = Stringify(data)

\* createUser called with the parsed data: the upload starts, nothing else
createUser(data) ==
    /\ uploads' = Append(uploads, Invocation(data, Pending # {}))
    /\ UNCHANGED output

\* a continuation that writes output only for the latest invocation
Continue_IfLatest(i) ==
    output' = IF i = Len(uploads) THEN Stringify(uploads[i].data) ELSE output

\* the continuation of createUser after its await, for invocation i
Continue(i) == output' = Stringify(uploads[i].data)

\* addNewTech with prepend in place of append
addNewTech_Prepend ==
    /\ Len(techs) < MaxTechs
    /\ techs' = <<NewTech>> \o techs
    /\ UNCHANGED <<avatar, name, email, password, errors, submitResult,
                   output, uploads, lastResolved>>

\* addNewTech: append({title: "", knowledge: 0})
addNewTech ==
    /\ Len(techs) < MaxTechs
    /\ techs' = Append(techs, NewTech)
    /\ UNCHANGED <<avatar, name, email, password, errors, submitResult,
                   output, uploads, lastResolved>>

\* handleSubmit(createUser): the resolver runs on the current values; on
\* acceptance the errors are cleared and createUser is called; on rejection
\* the errors are stored; a throw of the resolver leaves the handler
Submit ==
    /\ Len(uploads) < MaxUploads
    /\ LET r == Resolve(avatar, name, email, password, techs)
       IN  /\ submitResult' = r.result
           /\ CASE r.result = "accepted" -> errors' = NoErrors /\ createUser(r.data)
                [] r.result = "rejected" ->
                     errors' = r.errors /\ UNCHANGED <<output, uploads>>
                [] OTHER -> UNCHANGED <<errors, output, uploads>>
    /\ UNCHANGED <<avatar, name, email, password, techs, lastResolved>>

UploadResults == {"data", "error"}

\* createUser inspecting the upload's result: no setOutput on an error
UploadResolve_CheckError(i, res) ==
    /\ i \in Pending
    /\ uploads' = [uploads EXCEPT ![i].status = "resolved", ![i].result = res]
    /\ lastResolved' = i
    /\ IF res = "error" THEN UNCHANGED output ELSE Continue(i)
    /\ UNCHANGED <<avatar, name, email, password, techs, errors, submitResult>>

\* the upload of invocation i resolves, with a stored object or with an
\* error in its result; createUser goes on to setOutput either way
UploadResolve(i, res) ==
    /\ i \in Pending
    /\ uploads' = [uploads EXCEPT ![i].status = "resolved", ![i].result = res]
    /\ lastResolved' = i
    /\ Continue(i)
    /\ UNCHANGED <<avatar, name, email, password, techs, errors, submitResult>>

\* the upload of invocation i rejects: the await throws and createUser ends
UploadReject(i) ==
    /\ i \in Pending
    /\ uploads' = [uploads EXCEPT ![i].status = "rejected"]
    /\ UNCHANGED <<avatar, name, email, password, techs, errors, submitResult,
                   output, lastResolved>>

(***************************************************************************)
(* The inputs.  SetName to SetTechKnowledge are the change handlers that   *)
(* register() gives the rendered inputs; they store what was typed.        *)
(* errors is the object as handleSubmit last wrote it: the form library's  *)
(* own re-validation of a single field on a later change is left out, and  *)
(* so is the browser's validation of the email and number inputs, which    *)
(* only withholds submits that the schema would reject.                    *)
(***************************************************************************)
Ana == <<"a","n","a">>
Bob == <<"b","o","b">>
BooEmail == <<"a">> \o BooDomain
GoodPassword == "123456"
Eighty == TextValue(<<"8","0">>)
Thirty == TextValue(<<"3","0">>)
GoodTechs == <<Tech("React", Eighty), Tech("Node", Thirty)>>
SmallFile == File("a.png", 1024)
BigFile == File("b.png", MaxAvatarSize + 1)

TypedNames == {<<>>, Ana, Bob}
TypedEmails == {<<>>, BooEmail}
TypedPasswords == {"", GoodPassword}
TypedTitles == {"", "React"}
TypedKnowledge == {Thirty, Eighty}

SetName(v) ==
    /\ name' = v
    /\ UNCHANGED <<avatar, email, password, techs, errors, submitResult,
                   output, uploads, lastResolved>>

SetEmail(v) ==
    /\ email' = v
    /\ UNCHANGED <<avatar, name, password, techs, errors, submitResult,
                   output, uploads, lastResolved>>

SetPassword(v) ==
    /\ password' = v
    /\ UNCHANGED <<avatar, name, email, techs, errors, submitResult,
                   output, uploads, lastResolved>>

SetTechTitle(i, v) ==
    /\ i \in 1..Len(techs)
    /\ techs' = [techs EXCEPT ![i].title = v]
    /\ UNCHANGED <<avatar, name, email, password, errors, submitResult,
                   output, uploads, lastResolved>>

SetTechKnowledge(i, v) ==
    /\ i \in 1..Len(techs)
    /\ techs' = [techs EXCEPT ![i].knowledge = v]
    /\ UNCHANGED <<avatar, name, email, password, errors, submitResult,
                   output, uploads, lastResolved>>

(***************************************************************************)
(* Spec: the form as it is rendered.  The avatar input is commented out,   *)
(* so no input is registered under "avatar" and its value stays undefined. *)
(***************************************************************************)
Fresh ==
    /\ errors = NoErrors
    /\ submitResult = "none"
    /\ output = ""
    /\ uploads = <<>>
    /\ lastResolved = 0

Init ==
    /\ avatar = Undefined
    /\ name = <<>>
    /\ email = <<>>
    /\ password = ""
    /\ techs = <<>>
    /\ Fresh

Next ==
    \/ \E v \in TypedNames : SetName(v)
    \/ \E v \in TypedEmails : SetEmail(v)
    \/ \E v \in TypedPasswords : SetPassword(v)
    \/ addNewTech
    \/ \E i \in 1..MaxTechs, v \in TypedTitles : SetTechTitle(i, v)
    \/ \E i \in 1..MaxTechs, v \in TypedKnowledge : SetTechKnowledge(i, v)
    \/ Submit

Spec == Init /\ [][Next]_vars

(***************************************************************************)
(* SpecSchema: the schema and createUser on the values the schema is       *)
(* written for, a FileList under "avatar" included (what the input of      *)
(* lines 90-98 would register).  The form starts holding any of            *)
(* FormInputs and is then submitted.                                       *)
(***************************************************************************)
SeqsUpTo(S, n) == UNION {[1..k -> S] : k \in 0..n}

NameChars == {" ", "a", "B"}
FineNames == SeqsUpTo(NameChars, MaxNameLen)

FineEmails ==
    { <<>>,
      BooEmail,
      <<"A","@","B","O","O",".","C","O","M",".","B","R">>,
      <<"a","@","B","o","o",".","c","o","m",".","b","r">>,
      <<"Z","e","@","b","o","o",".","c","o","m",".","b","r">>,
      <<"a","@","f","o","o",".","c","o","m">>,
      <<"a","@","b","o","o",".","c","o","m">>,
      <<"a","b","c">>,
      BooDomain,
      <<"a",".",".","b">> \o BooDomain }

FineSizes == {0, MaxAvatarSize - 1, MaxAvatarSize, MaxAvatarSize + 1}
FineAvatars ==
    {Undefined, FileList(<<>>), FileList(<<SmallFile, BigFile>>),
     FileList(<<BigFile, SmallFile>>)}
    \cup {FileList(<<File("a.png", sz)>>) : sz \in FineSizes}

FinePasswords == {"", "12345", GoodPassword, "1234567"}

FineKnowledge ==
    {NumberValue(0), TextValue(<<>>), TextValue(<<"1">>), TextValue(<<"5","0">>),
     TextValue(<<"5","1">>), TextValue(<<"1","0","0">>), TextValue(<<"1","0","1">>)}
FineRows == {Tech("React", k) : k \in FineKnowledge} \cup {NewTech, Tech("", Eighty)}
FineTechs == SeqsUpTo(FineRows, MaxTechs)

Form(a, n, e, p, t) == [avatar |-> a, name |-> n, email |-> e, password |-> p, techs |-> t]

GoodAvatar == FileList(<<SmallFile>>)

FormInputs ==
    {Form(a, n, e, p, t) :
        a \in {Undefined, FileList(<<>>), GoodAvatar},
        n \in {<<>>, <<" ">>, Ana},
        e \in {<<>>, BooEmail},
        p \in {"", GoodPassword},
        t \in {<<>>, GoodTechs}}
    \cup {Form(a, Ana, BooEmail, GoodPassword, GoodTechs) : a \in FineAvatars}
    \cup {Form(GoodAvatar, n, BooEmail, GoodPassword, GoodTechs) : n \in FineNames}
    \cup {Form(GoodAvatar, Ana, e, GoodPassword, GoodTechs) : e \in FineEmails}
    \cup {Form(GoodAvatar, Ana, BooEmail, p, GoodTechs) : p \in FinePasswords}
    \cup {Form(GoodAvatar, Ana, BooEmail, GoodPassword, t) : t \in FineTechs}

Holds(f) ==
    /\ avatar = f.avatar
    /\ name = f.name
    /\ email = f.email
    /\ password = f.password
    /\ techs = f.techs

InitSchema == (\E f \in FormInputs : Holds(f)) /\ Fresh

NextSchema ==
    \/ addNewTech
    \/ Submit
    \/ \E i \in 1..MaxUploads, res \in UploadResults : UploadResolve(i, res)
    \/ \E i \in 1..MaxUploads : UploadReject(i)

SpecSchema == InitSchema /\ [][NextSchema]_vars

(***************************************************************************)
(* SpecUploads: the form filled in with values the schema accepts, the     *)
(* name retyped between submits, and the uploads settling in any order.    *)
(***************************************************************************)
InitUploads == Holds(Form(GoodAvatar, Ana, BooEmail, GoodPassword, GoodTechs)) /\ Fresh

NextUploads ==
    \/ \E v \in TypedNames : SetName(v)
    \/ addNewTech
    \/ Submit
    \/ \E i \in 1..MaxUploads, res \in UploadResults : UploadResolve(i, res)
    \/ \E i \in 1..MaxUploads : UploadReject(i)

SpecUploads == InitUploads /\ [][NextUploads]_vars

(***************************************************************************)
(* The rules of createUserFormSchema, stated on the values of the form.    *)
(* An empty FileList breaks no rule of the avatar: there is no file for    *)
(* the size rule to measure.                                               *)
(***************************************************************************)
AvatarRule(a) == a.kind = "FileList" /\ (a.files # <<>> => a.files[1].size <= MaxAvatarSize)

NameRule(n) == n # <<>>

EmailRule(e) == e # <<>> /\ IsEmail(e) /\ EmailIsBoo(toLowerCase(e))

PasswordRule(p) == Len(p) >= MinPassword

TechRule(row) ==
    /\ row.title # ""
    /\ Coerce(row.knowledge) >= MinKnowledge
    /\ Coerce(row.knowledge) <= MaxKnowledge

TechsRule(t) ==
    /\ Len(t) >= MinTechs
    /\ \A i \in 1..Len(t) : TechRule(t[i])
    /\ \E i \in 1..Len(t) : Coerce(t[i].knowledge) > LearnedAbove

FailingFields ==
    {f \in Fields :
        \/ f = "avatar" /\ ~AvatarRule(avatar)
        \/ f = "name" /\ ~NameRule(name)
        \/ f = "email" /\ ~EmailRule(email)
        \/ f = "password" /\ ~PasswordRule(password)
        \/ f = "techs" /\ ~TechsRule(techs)}

\* steps of the component, as seen from outside
Started == Len(uploads') = Len(uploads) + 1
NotStarted == Len(uploads') = Len(uploads)
LastStarted == uploads'[Len(uploads')]
Resolves(i) == uploads[i].status = "pending" /\ uploads'[i].status = "resolved"
Rejects(i) == uploads[i].status = "pending" /\ uploads'[i].status = "rejected"
AllResolved == \A i \in 1..Len(uploads) : uploads[i].status = "resolved"

(***************************************************************************)
(* The claims.                                                             *)
(***************************************************************************)

\* C1: every accepted submit starts one upload of the avatar to the bucket
\* "forms-react" and leaves output alone; output changes only in a step in
\* which a pending upload resolves, and then to the JSON of that upload's
\* data.  So output is never written for an upload that is pending or was
\* never started.
C1_OutputOnlyAfterUpload ==
    [][ /\ (Submit /\ submitResult' = "accepted") =>
              /\ Started
              /\ LastStarted.bucket = "forms-react"
              /\ LastStarted.status = "pending"
              /\ LastStarted.body = avatar.files[1]
              /\ LastStarted.path = avatar.files[1].name
              /\ output' = output
        /\ output' # output =>
              \E i \in 1..Len(uploads) :
                  /\ Resolves(i)
                  /\ uploads[i].bucket = "forms-react"
                  /\ output' = Stringify(uploads[i].data)
      ]_vars

\* C1 witness: output shows one submit's data while a later submit with
\* other data is still awaiting its upload.
C1_Witness ==
    /\ output # ""
    /\ \E i \in Pending : Stringify(uploads[i].data) # output

\* C2 (as claimed): a submit starts an upload only when every rule holds;
\* when a rule fails no upload is started, output is unchanged, and every
\* field whose rule fails has an error.
C2_SubmitOnlyWhenValid ==
    [][ Submit =>
          /\ Started => FailingFields = {}
          /\ FailingFields # {} =>
                /\ uploads' = uploads
                /\ output' = output
                /\ \A f \in FailingFields : errors'[f] # ""
      ]_vars

\* C3 (as claimed): a submit of the rendered form whose name, email,
\* password and techs satisfy their rules uploads the avatar, so that output
\* can become the JSON of the parsed data once the upload resolves.
C3_RenderedFormUploads ==
    [][ ( /\ Submit
          /\ NameRule(name) /\ EmailRule(email)
          /\ PasswordRule(password) /\ TechsRule(techs) )
        => Started
      ]_vars

\* C4: whenever the techs list changes length it grows by exactly one, the
\* new last entry is {title: "", knowledge: 0}, the old entries keep their
\* values and order, and name, email, password, avatar and output are
\* unchanged.
C4_AddAppendsDefaultRow ==
    [][ Len(techs') # Len(techs) =>
          /\ Len(techs') = Len(techs) + 1
          /\ techs'[Len(techs')] =
                [title |-> "", knowledge |-> [type |-> "number", num |-> 0, text |-> <<>>]]
          /\ SubSeq(techs', 1, Len(techs)) = techs
          /\ UNCHANGED <<name, email, password, avatar, output>>
      ]_vars

\* C4 witness: a third row with the defaults was added after two filled
\* rows, while output shows a result.
C4_Witness ==
    /\ Len(techs) = 3
    /\ techs[3] = NewTech
    /\ SubSeq(techs, 1, 2) = GoodTechs
    /\ output # ""
    /\ name # <<>>

\* C5: every techs list in the data of a createUser invocation has at least
\* two entries, each with a non-empty title and a knowledge from 1 to 100,
\* one of them above 50; and a step taken while the techs of the form break
\* one of these, or hold a row with addNewTech's defaults, starts no upload.
C5_TechsReachCreateUserValid ==
    [][ /\ \A i \in 1..Len(uploads') :
              LET t == uploads'[i].data.techs
              IN  /\ Len(t) >= 2
                  /\ \A k \in 1..Len(t) :
                        t[k].title # "" /\ t[k].knowledge >= 1 /\ t[k].knowledge <= 100
                  /\ \E k \in 1..Len(t) : t[k].knowledge > 50
        /\ (~TechsRule(techs) \/ \E k \in 1..Len(techs) : techs[k] = NewTech)
              => NotStarted
      ]_vars

\* C5 witness: a list with knowledge 51 and 1 reached createUser, and then a
\* row with the defaults was added and the submit was rejected on techs.
C5_Witness ==
    /\ \E i \in 1..Len(uploads) :
          /\ uploads[i].data.techs[1].knowledge = 51
          /\ uploads[i].data.techs[2].knowledge = 1
    /\ techs[Len(techs)] = NewTech
    /\ submitResult = "rejected"
    /\ errors["techs"] # ""

\* the trimmed name with the first character of every space-separated word
\* upper-cased
NameAsClaimed(n) ==
    LET t == trim(n)
    IN  [i \in 1..Len(t) |->
           IF i = 1 \/ t[i - 1] = " " THEN toLocaleUpperCase(t[i]) ELSE t[i]]

\* C6 (as claimed): a submit with a non-empty name, the other fields being
\* acceptable, is accepted without a throw, and the parsed name is the
\* trimmed name with the first character of every word upper-cased.
C6_NameCapitalized ==
    [][ ( /\ Submit
          /\ name # <<>>
          /\ Resolve(avatar, Ana, email, password, techs).result = "accepted" )
        => /\ submitResult' = "accepted"
           /\ Started
           /\ LastStarted.data.name = NameAsClaimed(name)
      ]_vars

\* C7: every email in the data of a createUser invocation is lower-case and
\* ends with "@boo.com.br"; and a submit of a well-formed address whose
\* lower-cased text ends with "@boo.com.br", the other fields being
\* acceptable, is accepted with the lower-cased address and leaves no error
\* "O e-mail precisa ser da boo".
C7_EmailLoweredThenChecked ==
    [][ /\ \A i \in 1..Len(uploads') :
              LET e == uploads'[i].data.email
              IN  /\ \A k \in 1..Len(e) : ~IsUpper(e[k])
                  /\ Len(e) >= Len(BooDomain)
                  /\ SubSeq(e, Len(e) - Len(BooDomain) + 1, Len(e)) = BooDomain
        /\ ( /\ Submit
             /\ IsEmail(email)
             /\ endsWith(toLowerCase(email), BooDomain)
             /\ Resolve(avatar, name, BooEmail, password, techs).result = "accepted" )
           => /\ submitResult' = "accepted"
              /\ Started
              /\ LastStarted.data.email = toLowerCase(email)
              /\ errors'["email"] # "O e-mail precisa ser da boo"
      ]_vars

\* C7 witness: an address typed with an upper-case domain was accepted and
\* is shown in lower case.
C7_Witness ==
    /\ email = <<"A","@","B","O","O",".","C","O","M",".","B","R">>
    /\ Len(uploads) = 1
    /\ uploads[1].data.email = BooEmail
    /\ output = Stringify(uploads[1].data)

\* C8 (as claimed): every uploaded file is the first file of the submitted
\* FileList and has at most 5 * 1024 * 1024 = 5242880 bytes; a first file of
\* 5242881 bytes or more is rejected with "O arquivo precisa ter no máximo
\* 5Mb" and not uploaded; a FileList with no file is rejected by validation,
\* with an error and without an exception.
C8_AvatarWithinLimit ==
    [][ /\ MaxAvatarSize = 5242880
        /\ \A i \in 1..Len(uploads') :
              /\ avatar.files # <<>>
              /\ uploads'[i].body = avatar.files[1]
              /\ uploads'[i].body.size <= 5242880
        /\ ( /\ Submit
             /\ avatar.files # <<>>
             /\ avatar.files[1].size >= 5242881
             /\ Resolve(GoodAvatar, name, email, password, techs).result = "accepted" )
           => /\ submitResult' = "rejected"
              /\ errors'["avatar"] = "O arquivo precisa ter no máximo 5Mb"
              /\ NotStarted
        /\ (Submit /\ avatar = FileList(<<>>))
           => submitResult' = "rejected" /\ errors'["avatar"] # ""
      ]_vars

\* C9 (as claimed): when the latest invocation of createUser was started
\* while an earlier upload was pending, then once every upload has resolved
\* output is the JSON of the latest submit's data.
C9_LaterSubmitWins ==
    ( /\ Len(uploads) >= 2
      /\ uploads[Len(uploads)].overlapped
      /\ AllResolved )
    => output = Stringify(uploads[Len(uploads)].data)

\* C9 (amended): in that case output is the JSON of the data of the submit
\* whose upload resolved last, whichever submit that is.
C9_LastResolvedWins ==
    ( /\ Len(uploads) >= 2
      /\ uploads[Len(uploads)].overlapped
      /\ AllResolved )
    => output = Stringify(uploads[lastResolved].data)

\* C9 witness: two overlapping submits of different data have both resolved,
\* the earlier one last, and output shows the earlier submit's data.
C9_Witness ==
    /\ Len(uploads) = 2
    /\ uploads[2].overlapped
    /\ AllResolved
    /\ lastResolved = 1
    /\ uploads[1].data # uploads[2].data
    /\ output = Stringify(uploads[1].data)
    /\ output # Stringify(uploads[2].data)

\* C10: a step in which an upload resolves, with a stored object or with an
\* error in its result, sets output to the JSON of that invocation's data; a
\* step in which an upload rejects leaves output as it was; and no other
\* step changes output.
C10_OutputExactlyOnResolve ==
    [][ /\ \A i \in 1..Len(uploads) :
              /\ Resolves(i) => output' = Stringify(uploads[i].data)
              /\ Rejects(i) => output' = output
        /\ (\A i \in 1..Len(uploads) : ~Resolves(i)) => output' = output
      ]_vars

\* C10 witness: an upload resolved with an error in its result after another
\* was rejected, and output shows the data of the one that resolved.
C10_Witness ==
    /\ \E i \in 1..Len(uploads) :
          /\ uploads[i].status = "resolved"
          /\ uploads[i].result = "error"
          /\ output = Stringify(uploads[i].data)
    /\ \E j \in 1..Len(uploads) :
          /\ uploads[j].status = "rejected"
          /\ Stringify(uploads[j].data) # output

=============================================================================
